---- MODULE Spec2Model ----
(***************************************************************************)
(* State-machine model of the TraumaChat real-time conversation engine:    *)
(* the matchmaking queue (server/services/matchmaker.js), the conversation *)
(* registry (server/services/conversation.js), the room timer              *)
(* (server/services/timer.js), the points service and the Socket.IO        *)
(* handlers (server/socket/handlers/index.js).                             *)
(*                                                                         *)
(* Node runs every handler and every timer callback to completion on one   *)
(* thread, so each handler and each callback is one atomic action.         *)
(*                                                                         *)
(* Abstractions:                                                           *)
(*  - a room id (uuid v4) is a fresh unique token per conversation; the    *)
(*    model uses the conversation's row id as its room token;              *)
(*  - wall-clock time is not modelled: a pending setTimeout may fire at    *)
(*    any later step, except that the warning callback of a room timer     *)
(*    (shorter delay, scheduled first) fires before its expiry callback;   *)
(*  - the append-only tables the engine never reads back (messages,        *)
(*    ratings, points_log / users.total_points) are represented by the     *)
(*    rows the current event inserted (variable inserted);                 *)
(*  - emitted holds the events the current handler emitted, in order.      *)
(***************************************************************************)
EXTENDS Integers, Sequences, FiniteSets, TLC

\* ------------------------------------------------------------------ bounds
NumUsers == 3
NumMembers == 2
MaxConvs == 1
MaxConn == 1
MaxVoteRows == 2
MaxQueueOps == 4

Users == 1..NumUsers
ConvIds == 1..(MaxConvs + 1)

\* --------------------------------------------------------------- constants
ACTIVE == "active"
EXTENSION_PENDING == "extension_pending"
PHOTO_EXCHANGE == "photo_exchange"
FRIENDS_FOREVER == "friends_forever"
CLOSED == "closed"

VoteChoices == {"extend", "leave", "friends_forever"}

PARTICIPATION == 10
EXTENSION == 25
RATING_MULTIPLIER == 5
FRIENDS_FOREVER_POINTS == 100
STREAK_BONUS == 10
STREAK_THRESHOLD == 3
\* the timer: the default of TIMER_SECONDS, the lead of the warning and the
\* grace period of a disconnect, in seconds
DefaultTimerSeconds == 180
TIMER_WARNING_SECONDS == 30
GraceSeconds == 30

NoConv == [id |-> 0]
NoSocket == <<0, 0>>
NoTimer == [timeout |-> 0, warningTimeout |-> 0]
NoEvent == [name |-> "none"]
NoRound == [start |-> 0, reveals |-> 0, raters |-> {}]

VARIABLES
  conversations,    \* table conversations: row id -> row
  extension_votes,  \* table extension_votes, in insertion order
  photo_exchanges,  \* table photo_exchanges, in insertion order
  queue,            \* matchmaker.queue
  userSockets,      \* matchmaker.userSockets: user -> socket id
  sockets,          \* io.sockets.sockets: the connected socket ids
  connCount,        \* connections opened so far per user (names the sockets)
  rooms,            \* Socket.IO room membership: pairs <<socket id, room>>
  activeTimers,     \* timer.activeTimers: room -> {timeout, warningTimeout}
  timeouts,         \* Node's pending setTimeout callbacks
  pendingPhotos,    \* handlers.pendingPhotos: conversation -> set of users
  pendingRatings,   \* handlers.pendingRatings: conversation -> (user -> score)
  disconnectTimers, \* handlers.disconnectTimers: user -> timeout handle
  event,            \* the inbound event or callback handled by the last step
  emitted,          \* the events that step emitted, in order
  inserted,         \* rows that step inserted into messages/ratings/points_log
  mmLog,            \* observer of direct matchmaker calls (enqueues, pairs)
  roundStart,       \* observer: conversation -> number of extension_votes rows
                    \* when it last entered EXTENSION_PENDING
  photoRound,       \* observer: conversation -> its latest photo-exchange round:
                    \* the number of photo_exchanges rows when the round began,
                    \* the reveals emitted and the users who rated since
  closedOnce,       \* observer: the conversations that have been closed
  TIMER_SECONDS     \* constants.TIMER_SECONDS, read from DEV_TIMER_SECONDS
                    \* when the process starts

db == <<conversations, extension_votes, photo_exchanges>>
mm == <<queue, userSockets>>
conn == <<sockets, connCount, rooms>>
timerState == <<activeTimers, timeouts>>
pending == <<pendingPhotos, pendingRatings>>
obs == <<event, emitted, inserted>>
ghost == <<mmLog, roundStart, photoRound, closedOnce>>
env == <<TIMER_SECONDS>>
vars == <<conversations, extension_votes, photo_exchanges, queue, userSockets,
          sockets, connCount, rooms, activeTimers, timeouts, pendingPhotos,
          pendingRatings, disconnectTimers, event, emitted, inserted, mmLog,
          roundStart, photoRound, closedOnce, TIMER_SECONDS>>

\* ----------------------------------------------------------------- helpers
Range(f) == {f[x] : x \in DOMAIN f}

\* Map.set / Map.delete on a function with a finite domain
MapSet(m, k, v) == [x \in (DOMAIN m) \cup {k} |-> IF x = k THEN v ELSE m[x]]
MapDelete(m, k) == [x \in (DOMAIN m) \ {k} |-> m[x]]

OwnerOf(s) == s[1]

\* a JavaScript number that a client can put in a payload: the fraction n / d
\* in lowest terms, n >= 0 and d > 0 (d = 1 for a whole number)
RECURSIVE GCD(_, _)
GCD(a, b) == IF b = 0 THEN a ELSE GCD(b, a % b)
Whole(k) == [n |-> k, d |-> 1]
Fraction(n, d) == [n |-> n \div GCD(n, d), d |-> d \div GCD(n, d)]
\* x * k, x >= k and x <= k for a number x and an integer k
Times(x, k) == Fraction(x.n * k, x.d)
AtLeast(x, k) == x.n >= k * x.d
AtMost(x, k) == x.n <= k * x.d

ToRoom(room, ev, data) == [to |-> "room", dest |-> room, ev |-> ev, data |-> data]
ToSocket(s, ev, data) == [to |-> "socket", dest |-> s, ev |-> ev, data |-> data]

\* the delay setTimeout(callback, ms) schedules: Node replaces a delay below
\* 1 or above 2^31 - 1 by 1
setTimeoutDelay(ms) == IF ms < 1 \/ ms > 2147483647 THEN 1 ELSE ms

\* a pending setTimeout callback: its handle, which callback it is, the room
\* and conversation its closure captured, the handle of the callback that
\* is due before it (0: none), for a grace timer the user, and the delay in
\* milliseconds it was scheduled with
Timeout(id, kind, roomId, conversationId, after, userId, delay) ==
  [id |-> id, kind |-> kind, roomId |-> roomId,
   conversationId |-> conversationId, after |-> after, userId |-> userId,
   delay |-> delay]

\* a setTimeout handle that no pending callback and no stored handle uses
UsedHandles ==
  {t.id : t \in timeouts}
    \cup {activeTimers[r].timeout : r \in DOMAIN activeTimers}
    \cup {activeTimers[r].warningTimeout : r \in DOMAIN activeTimers}
    \cup Range(disconnectTimers)
FreshHandle(used) == CHOOSE n \in 1..(Cardinality(used) + 1) : n \notin used

\* ------------------------------------------------- conversation service
getConversation(conversationId) ==
  IF conversationId \in DOMAIN conversations
  THEN conversations[conversationId] ELSE NoConv

getPartnerUserId(conversation, userId) ==
  IF conversation.user1_id = userId
  THEN conversation.user2_id ELSE conversation.user1_id

closeConversation(convs, conversationId) ==
  [convs EXCEPT ![conversationId].status = CLOSED]

setFriendsForever(convs, conversationId) ==
  [convs EXCEPT ![conversationId].status = FRIENDS_FOREVER,
                ![conversationId].is_friends_forever = 1]

extendConversationStatusOnly(convs, conversationId) ==
  [convs EXCEPT ![conversationId].status = PHOTO_EXCHANGE]

extendConversation(convs, conversationId) ==
  [convs EXCEPT ![conversationId].extensions_count = @ + 1,
                ![conversationId].status = PHOTO_EXCHANGE]

setActive(convs, conversationId) ==
  [convs EXCEPT ![conversationId].status = ACTIVE]

LiveStatuses == {ACTIVE, EXTENSION_PENDING, PHOTO_EXCHANGE, FRIENDS_FOREVER}

getLatestConversationForUser(userId) ==
  LET mine == {c \in DOMAIN conversations :
                 conversations[c].user1_id = userId
                   \/ conversations[c].user2_id = userId}
  IN IF mine = {} THEN NoConv
     ELSE conversations[CHOOSE c \in mine : \A d \in mine : d <= c]

\* most recent live conversation of the user (rows are created in id order)
getActiveConversationForUser(userId) ==
  LET live == {c \in DOMAIN conversations :
                 /\ (conversations[c].user1_id = userId
                       \/ conversations[c].user2_id = userId)
                 /\ conversations[c].status \in LiveStatuses}
  IN IF live = {} THEN NoConv
     ELSE conversations[CHOOSE c \in live : \A d \in live : d <= c]

\* ------------------------------------------------------- points service
awardPoints(userId, conversationId, eventType, points) ==
  [table |-> "points_log", user_id |-> userId,
   conversation_id |-> conversationId, event_type |-> eventType,
   points |-> points]

awardParticipation(userId, conversationId) ==
  awardPoints(userId, conversationId, "participation", PARTICIPATION)

awardExtensionPastThreshold(userId, conversationId, extensionsCount) ==
  awardPoints(userId, conversationId, "extension",
              IF extensionsCount > STREAK_THRESHOLD
              THEN EXTENSION + STREAK_BONUS ELSE EXTENSION)

awardExtension(userId, conversationId, extensionsCount) ==
  awardPoints(userId, conversationId, "extension",
              IF extensionsCount >= STREAK_THRESHOLD
              THEN EXTENSION + STREAK_BONUS ELSE EXTENSION)

awardRating(userId, conversationId, score) ==
  awardPoints(userId, conversationId, "rating", Times(score, RATING_MULTIPLIER))

awardFriendsForever(userId, conversationId) ==
  awardPoints(userId, conversationId, "friends_forever", FRIENDS_FOREVER_POINTS)

\* ----------------------------------------------------------- matchmaker
removeFromQueueSkipsHead(q, userId) ==
  LET hits == {i \in 1..Len(q) : q[i].userId = userId}
  IN IF hits = {} THEN q
     ELSE LET idx == CHOOSE i \in hits : \A j \in hits : i <= j
          IN IF idx > 1
             THEN SubSeq(q, 1, idx - 1) \o SubSeq(q, idx + 1, Len(q))
             ELSE q

removeFromQueue(q, userId) ==
  LET hits == {i \in 1..Len(q) : q[i].userId = userId}
  IN IF hits = {} THEN q
     ELSE LET idx == CHOOSE i \in hits : \A j \in hits : i <= j
          IN SubSeq(q, 1, idx - 1) \o SubSeq(q, idx + 1, Len(q))

addToQueueKeepsOld(q, userId, socketId) ==
  Append(q, [userId |-> userId, socketId |-> socketId])

addToQueue(q, userId, socketId) ==
  Append(removeFromQueue(q, userId), [userId |-> userId, socketId |-> socketId])

tryMatchNewestFirst(q, convs) ==
  IF Len(q) < 2
  THEN [match |-> FALSE, queue |-> q, conversations |-> convs]
  ELSE LET user1 == q[Len(q)]
           user2 == q[Len(q) - 1]
           id == Len(convs) + 1
           row == [id |-> id, user1_id |-> user1.userId,
                   user2_id |-> user2.userId, room_id |-> id,
                   status |-> ACTIVE, extensions_count |-> 0,
                   is_friends_forever |-> 0]
       IN [match |-> TRUE, conversationId |-> id, roomId |-> id,
           user1 |-> user1, user2 |-> user2,
           queue |-> SubSeq(q, 1, Len(q) - 2),
           conversations |-> Append(convs, row)]

\* tryMatch: the returned match (NoConv.id = 0 stands for null), the queue
\* and the conversations table after the call
tryMatch(q, convs) ==
  IF Len(q) < 2
  THEN [match |-> FALSE, queue |-> q, conversations |-> convs]
  ELSE LET user1 == q[1]
           user2 == q[2]
           id == Len(convs) + 1
           row == [id |-> id, user1_id |-> user1.userId,
                   user2_id |-> user2.userId, room_id |-> id,
                   status |-> ACTIVE, extensions_count |-> 0,
                   is_friends_forever |-> 0]
       IN [match |-> TRUE, conversationId |-> id, roomId |-> id,
           user1 |-> user1, user2 |-> user2,
           queue |-> SubSeq(q, 3, Len(q)),
           conversations |-> Append(convs, row)]

\* ---------------------------------------------------------------- timer
\* clearTimer: clearTimeout on both stored handles, then drop the entry
clearTimerTimeoutsWarningOnly(tos, timers, roomId) ==
  IF roomId \in DOMAIN timers
  THEN {t \in tos : t.id # timers[roomId].warningTimeout}
  ELSE tos

clearTimerTimeouts(tos, timers, roomId) ==
  IF roomId \in DOMAIN timers
  THEN {t \in tos : t.id \notin {timers[roomId].timeout,
                                 timers[roomId].warningTimeout}}
  ELSE tos

clearTimerMap(timers, roomId) == MapDelete(timers, roomId)

startTimerUnregistered(tos, timers, convs, roomId, conversationId) ==
  LET tos1 == clearTimerTimeouts(tos, timers, roomId)
      timers1 == clearTimerMap(timers, roomId)
      used1 == {t.id : t \in tos1}
                 \cup {timers1[r].timeout : r \in DOMAIN timers1}
                 \cup {timers1[r].warningTimeout : r \in DOMAIN timers1}
                 \cup Range(disconnectTimers)
      w == FreshHandle(used1)
      e == FreshHandle(used1 \cup {w})
  IN [timeouts |-> tos1 \cup
                     {Timeout(w, "warning", roomId, conversationId, 0, 0,
                              (TIMER_SECONDS - TIMER_WARNING_SECONDS) * 1000),
                      Timeout(e, "expiry", roomId, conversationId, w, 0,
                              TIMER_SECONDS * 1000)},
      activeTimers |-> timers1,
      conversations |-> [convs EXCEPT ![conversationId].status = ACTIVE],
      emitted |-> <<ToRoom(roomId, "timer-start", conversationId)>>]

\* startTimer: the state of the timer module, the conversations table and
\* the emitted event after startTimer(io, roomId, conversationId)
startTimer(tos, timers, convs, roomId, conversationId) ==
  LET tos1 == clearTimerTimeouts(tos, timers, roomId)
      timers1 == clearTimerMap(timers, roomId)
      used1 == {t.id : t \in tos1}
                 \cup {timers1[r].timeout : r \in DOMAIN timers1}
                 \cup {timers1[r].warningTimeout : r \in DOMAIN timers1}
                 \cup Range(disconnectTimers)
      w == FreshHandle(used1)
      e == FreshHandle(used1 \cup {w})
      duration == setTimeoutDelay(TIMER_SECONDS * 1000)
      warningAt ==
        setTimeoutDelay((TIMER_SECONDS - TIMER_WARNING_SECONDS) * 1000)
  IN [timeouts |-> tos1 \cup
                     {Timeout(w, "warning", roomId, conversationId, 0, 0,
                              warningAt),
                      Timeout(e, "expiry", roomId, conversationId,
                              IF warningAt < duration THEN w ELSE 0, 0,
                              duration)},
      activeTimers |-> MapSet(timers1, roomId,
                              [timeout |-> e, warningTimeout |-> w]),
      conversations |-> [convs EXCEPT ![conversationId].status = ACTIVE],
      emitted |-> <<ToRoom(roomId, "timer-start", conversationId)>>]

\* ------------------------------------------------------------------- Init
\* the module state of a process that has just started
InitState ==
  /\ conversations = <<>>
  /\ extension_votes = <<>>
  /\ photo_exchanges = <<>>
  /\ queue = <<>>
  /\ userSockets = [u \in {} |-> NoSocket]
  /\ sockets = {}
  /\ connCount = [u \in Users |-> 0]
  /\ rooms = {}
  /\ activeTimers = [r \in {} |-> NoTimer]
  /\ timeouts = {}
  /\ pendingPhotos = [c \in {} |-> {}]
  /\ pendingRatings = [c \in {} |-> <<>>]
  /\ disconnectTimers = [u \in {} |-> 0]
  /\ event = NoEvent
  /\ emitted = <<>>
  /\ inserted = <<>>
  /\ mmLog = [enq |-> <<>>, pairs |-> <<>>, dequeued |-> FALSE, ret |-> "none"]
  /\ roundStart = [c \in {} |-> 0]
  /\ photoRound = [c \in {} |-> NoRound]
  /\ closedOnce = {}

\* a process started without DEV_TIMER_SECONDS
Init ==
  /\ InitState
  /\ TIMER_SECONDS = DefaultTimerSeconds

\* a process started with DEV_TIMER_SECONDS set: the documented 15, a
\* duration above the warning lead, or the default
TimerSecondsValues == {15, 45, DefaultTimerSeconds}

InitConfigured ==
  /\ InitState
  /\ TIMER_SECONDS \in TimerSecondsValues

\* ------------------------------------------------------------ connection
\* io.on('connection'): register presence, cancel a pending grace timer and
\* rejoin the user's live conversation
Connect(u) ==
  /\ LET s == <<u, connCount[u] + 1>>
         conv == getActiveConversationForUser(u)
     IN /\ connCount' = [connCount EXCEPT ![u] = @ + 1]
        /\ sockets' = sockets \cup {s}
        /\ userSockets' = MapSet(userSockets, u, s)
        /\ event' = [name |-> "connection", socket |-> s, userId |-> u]
        /\ IF u \in DOMAIN disconnectTimers
           THEN /\ timeouts' = {t \in timeouts : t.id # disconnectTimers[u]}
                /\ disconnectTimers' = MapDelete(disconnectTimers, u)
                /\ rooms' = IF conv # NoConv
                            THEN rooms \cup {<<s, conv.room_id>>} ELSE rooms
                /\ emitted' = IF conv # NoConv
                              THEN <<ToSocket(s, "rejoin-conversation",
                                       [conversationId |-> conv.id,
                                        status |-> conv.status,
                                        partnerId |-> getPartnerUserId(conv, u)])>>
                              ELSE <<>>
           ELSE /\ UNCHANGED <<timeouts, disconnectTimers, rooms>>
                /\ emitted' = <<>>
        /\ inserted' = <<>>
        /\ UNCHANGED <<env, db, queue, activeTimers, pending, ghost>>

\* socket.on('disconnect'): dequeue, start the grace timer of a live
\* conversation, unregister the socket mapping
Disconnect(s) ==
  /\ s \in sockets
  /\ LET userId == OwnerOf(s)
         conv == getActiveConversationForUser(userId)
         h == FreshHandle(UsedHandles)
     IN /\ sockets' = sockets \ {s}
        /\ queue' = removeFromQueue(removeFromQueue(queue, userId), userId)
        /\ userSockets' = MapDelete(userSockets, userId)
        /\ IF conv # NoConv /\ conv.status # CLOSED
           THEN /\ timeouts' = timeouts \cup
                     {Timeout(h, "grace", conv.room_id, conv.id, 0, userId,
                              setTimeoutDelay(GraceSeconds * 1000))}
                /\ disconnectTimers' = MapSet(disconnectTimers, userId, h)
           ELSE UNCHANGED <<timeouts, disconnectTimers>>
        /\ rooms' = {p \in rooms : p[1] # s}
        /\ event' = [name |-> "disconnect", socket |-> s, userId |-> userId,
                     queued |-> \E i \in 1..Len(queue) :
                                  queue[i].userId = userId]
        /\ emitted' = <<>>
        /\ inserted' = <<>>
        /\ UNCHANGED <<env, db, connCount, activeTimers, pending, ghost>>

graceStillOpenUnchecked(freshConv) == freshConv # NoConv

\* the re-check of the grace callback on the conversation it re-fetched
graceStillOpen(freshConv) == freshConv # NoConv /\ freshConv.status # CLOSED

\* the grace-period callback scheduled by the disconnect handler
GraceExpiry(t) ==
  /\ t \in timeouts
  /\ t.kind = "grace"
  /\ LET freshConv == getConversation(t.conversationId)
     IN /\ disconnectTimers' = MapDelete(disconnectTimers, t.userId)
        /\ event' = [name |-> "grace-expiry", userId |-> t.userId,
                     conversationId |-> t.conversationId]
        /\ inserted' = <<>>
        /\ IF graceStillOpen(freshConv)
           THEN /\ conversations' =
                     closeConversation(conversations, t.conversationId)
                /\ timeouts' =
                     clearTimerTimeouts(timeouts \ {t}, activeTimers, t.roomId)
                /\ activeTimers' = clearTimerMap(activeTimers, t.roomId)
                /\ emitted' =
                     <<ToRoom(t.roomId, "partner-disconnected", t.conversationId),
                       ToRoom(t.roomId, "conversation-closed", t.conversationId)>>
                /\ closedOnce' = closedOnce \cup {t.conversationId}
           ELSE /\ timeouts' = timeouts \ {t}
                /\ emitted' = <<>>
                /\ UNCHANGED <<conversations, activeTimers, closedOnce>>
        /\ UNCHANGED <<env, extension_votes, photo_exchanges, mm, conn, pending,
                       mmLog, roundStart, photoRound>>

\* ----------------------------------------------------------- matchmaking
\* socket.on(JOIN_QUEUE)
JoinQueue(s) ==
  /\ s \in sockets
  /\ LET userId == OwnerOf(s)
         q1 == addToQueue(queue, userId, s)
         m == tryMatch(q1, conversations)
     IN /\ userSockets' = MapSet(userSockets, userId, s)
        /\ queue' = m.queue
        /\ event' = [name |-> "join-queue", socket |-> s, userId |-> userId]
        /\ IF m.match
           THEN LET st == startTimer(timeouts, activeTimers, m.conversations,
                                     m.roomId, m.conversationId)
                    matched(to, partner) ==
                      IF to.socketId \in sockets
                      THEN <<ToSocket(to.socketId, "matched",
                               [conversationId |-> m.conversationId,
                                roomId |-> m.roomId,
                                partner |-> partner.userId])>>
                      ELSE <<>>
                IN /\ rooms' = rooms \cup
                        {<<q.socketId, m.roomId>> :
                           q \in {x \in {m.user1, m.user2} : x.socketId \in sockets}}
                   /\ conversations' = st.conversations
                   /\ timeouts' = st.timeouts
                   /\ activeTimers' = st.activeTimers
                   /\ inserted' =
                        <<awardParticipation(m.user1.userId, m.conversationId),
                          awardParticipation(m.user2.userId, m.conversationId),
                          [table |-> "messages",
                           conversation_id |-> m.conversationId,
                           sender_id |-> m.user1.userId,
                           message_type |-> "system"]>>
                   /\ emitted' = matched(m.user1, m.user2)
                                   \o matched(m.user2, m.user1) \o st.emitted
           ELSE /\ inserted' = <<>>
                /\ emitted' = <<>>
                /\ UNCHANGED <<conversations, timerState, rooms>>
        /\ UNCHANGED <<env, extension_votes, photo_exchanges, sockets, connCount,
                       pending, disconnectTimers, ghost>>

\* socket.on(LEAVE_QUEUE)
LeaveQueue(s) ==
  /\ s \in sockets
  /\ queue' = removeFromQueue(queue, OwnerOf(s))
  /\ event' = [name |-> "leave-queue", socket |-> s, userId |-> OwnerOf(s)]
  /\ emitted' = <<>>
  /\ inserted' = <<>>
  /\ UNCHANGED <<env, db, userSockets, conn, timerState, pending,
                 disconnectTimers, ghost>>

\* ------------------------------------------------------- timer callbacks
\* the warning callback scheduled by startTimer
TimerWarning(t) ==
  /\ t \in timeouts
  /\ t.kind = "warning"
  /\ timeouts' = timeouts \ {t}
  /\ event' = [name |-> "timer-warning", roomId |-> t.roomId,
               conversationId |-> t.conversationId]
  /\ emitted' = <<ToRoom(t.roomId, "timer-warning",
                         [secondsLeft |-> TIMER_WARNING_SECONDS])>>
  /\ inserted' = <<>>
  /\ UNCHANGED <<env, db, mm, conn, activeTimers, pending, disconnectTimers, ghost>>

TimerExpiryKeepsHandle(t) ==
  /\ t \in timeouts
  /\ t.kind = "expiry"
  /\ ~\E x \in timeouts :
         x.id = t.after /\ x.kind = "warning" /\ x.roomId = t.roomId
  /\ timeouts' = timeouts \ {t}
  /\ conversations' =
       [conversations EXCEPT ![t.conversationId].status = EXTENSION_PENDING]
  /\ event' = [name |-> "timer-expiry", roomId |-> t.roomId,
               conversationId |-> t.conversationId]
  /\ emitted' = <<ToRoom(t.roomId, "timer-expired", t.conversationId),
                  ToRoom(t.roomId, "extension-prompt", t.conversationId)>>
  /\ inserted' = <<>>
  /\ roundStart' =
       IF conversations[t.conversationId].status # EXTENSION_PENDING
       THEN MapSet(roundStart, t.conversationId, Len(extension_votes))
       ELSE roundStart
  /\ UNCHANGED <<env, activeTimers, extension_votes, photo_exchanges, mm, conn,
                 pending, disconnectTimers, mmLog, photoRound, closedOnce>>

\* the expiry callback scheduled by startTimer
TimerExpiry(t) ==
  /\ t \in timeouts
  /\ t.kind = "expiry"
  /\ ~\E x \in timeouts :
         x.id = t.after /\ x.kind = "warning" /\ x.roomId = t.roomId
  /\ timeouts' = timeouts \ {t}
  /\ activeTimers' = MapDelete(activeTimers, t.roomId)
  /\ conversations' =
       [conversations EXCEPT ![t.conversationId].status = EXTENSION_PENDING]
  /\ event' = [name |-> "timer-expiry", roomId |-> t.roomId,
               conversationId |-> t.conversationId]
  /\ emitted' = <<ToRoom(t.roomId, "timer-expired", t.conversationId),
                  ToRoom(t.roomId, "extension-prompt", t.conversationId)>>
  /\ inserted' = <<>>
  /\ roundStart' =
       IF conversations[t.conversationId].status # EXTENSION_PENDING
       THEN MapSet(roundStart, t.conversationId, Len(extension_votes))
       ELSE roundStart
  /\ UNCHANGED <<env, extension_votes, photo_exchanges, mm, conn, pending,
                 disconnectTimers, mmLog, photoRound, closedOnce>>

\* ------------------------------------------------------------------ chat
isParticipantUser1Only(conv, userId) == conv.user1_id = userId

\* the authorization check of the chat handlers
isParticipant(conv, userId) ==
  ~(conv.user1_id # userId /\ conv.user2_id # userId)

\* the body shared by the SEND_MESSAGE and SEND_VOICE_NOTE handlers
MessageInsert(s, conversationId, messageType) ==
  /\ s \in sockets
  /\ LET userId == OwnerOf(s)
         conv == getConversation(conversationId)
     IN /\ event' = [name |-> messageType, socket |-> s, userId |-> userId,
                     conversationId |-> conversationId]
        /\ IF conv = NoConv
           THEN emitted' = <<>> /\ inserted' = <<>>
           ELSE IF ~isParticipant(conv, userId)
           THEN emitted' = <<>> /\ inserted' = <<>>
           ELSE LET row == [table |-> "messages",
                            conversation_id |-> conversationId,
                            sender_id |-> userId,
                            message_type |-> messageType]
                IN /\ inserted' = <<row>>
                   /\ emitted' = <<ToRoom(conv.room_id, "new-message", row)>>
        /\ UNCHANGED <<env, db, mm, conn, timerState, pending,
                       disconnectTimers, ghost>>

\* socket.on(SEND_MESSAGE)
SendMessage(s, conversationId) == MessageInsert(s, conversationId, "text")

\* socket.on(SEND_VOICE_NOTE)
SendVoiceNote(s, conversationId) == MessageInsert(s, conversationId, "voice")

\* ------------------------------------------------------ extension voting
\* rows of extension_votes for (conversationId, round), in insertion order
votesOfRound(rows, conversationId, round) ==
  SelectSeq(rows, LAMBDA v : v.conversation_id = conversationId
                               /\ v.round = round)

\* voteMap[v.user_id] = v.vote over the rows in order: the last row of a
\* user wins
voteMapOf(votes) ==
  [u \in {votes[i].user_id : i \in 1..Len(votes)} |->
     LET last == CHOOSE i \in 1..Len(votes) :
                   /\ votes[i].user_id = u
                   /\ \A j \in 1..Len(votes) : votes[j].user_id = u => j <= i
     IN votes[last].vote]

\* the tally test of the handler: votes.length < 2
stillWaiting(votes) == Len(votes) < 2

resolveVotesSomeFriends(voteValues) ==
  IF "leave" \in voteValues THEN "closed"
  ELSE IF \E v \in voteValues : v = "friends_forever" THEN "friends_forever"
  ELSE "photo_exchange"

\* the if / else-if / else chain on voteValues
resolveVotes(voteValues) ==
  IF "leave" \in voteValues THEN "closed"
  ELSE IF \A v \in voteValues : v = "friends_forever" THEN "friends_forever"
  ELSE "photo_exchange"

voteAcceptedAnyStatus(conv) == conv # NoConv

voteAcceptedWhileActive(conv) ==
  conv # NoConv /\ conv.status \in {EXTENSION_PENDING, ACTIVE}

\* the guard at the top of the EXTENSION_VOTE handler
voteAccepted(conv) == conv # NoConv /\ conv.status = EXTENSION_PENDING

newPendingPhotosKeepsOld(photos, conversationId) ==
  IF conversationId \in DOMAIN photos THEN photos
  ELSE MapSet(photos, conversationId, {})

\* pendingPhotos.set(conversationId, new Set()) of the extend branch
newPendingPhotos(photos, conversationId) ==
  MapSet(photos, conversationId, {})

\* pendingRatings.set(conversationId, new Map()) of the extend branch
newPendingRatings(ratings, conversationId) ==
  MapSet(ratings, conversationId, <<>>)

\* socket.on(EXTENSION_VOTE)
ExtensionVote(s, conversationId, vote) ==
  /\ s \in sockets
  /\ LET userId == OwnerOf(s)
         conv == getConversation(conversationId)
     IN /\ event' = [name |-> "extension-vote", socket |-> s,
                     userId |-> userId, conversationId |-> conversationId]
        /\ IF ~voteAccepted(conv)
           THEN /\ emitted' = <<>>
                /\ inserted' = <<>>
                /\ UNCHANGED <<db, timerState, pending, photoRound,
                               closedOnce>>
           ELSE
           LET round == conv.extensions_count + 1
               rows == Append(extension_votes,
                              [conversation_id |-> conversationId,
                               user_id |-> userId, round |-> round,
                               vote |-> vote])
               votes == votesOfRound(rows, conversationId, round)
               voteValues == Range(voteMapOf(votes))
               result == resolveVotes(voteValues)
           IN /\ extension_votes' = rows
              /\ IF stillWaiting(votes)
                 THEN /\ emitted' = <<ToSocket(s, "vote-received", "waiting")>>
                      /\ inserted' = <<>>
                      /\ UNCHANGED <<conversations, timerState, pending,
                                     photoRound, closedOnce>>
                 ELSE IF result = "closed"
                 THEN /\ conversations' =
                           closeConversation(conversations, conversationId)
                      /\ timeouts' =
                           clearTimerTimeouts(timeouts, activeTimers, conv.room_id)
                      /\ activeTimers' = clearTimerMap(activeTimers, conv.room_id)
                      /\ emitted' =
                           <<ToRoom(conv.room_id, "extension-result", "closed"),
                             ToRoom(conv.room_id, "conversation-closed",
                                    conversationId)>>
                      /\ inserted' = <<>>
                      /\ closedOnce' = closedOnce \cup {conversationId}
                      /\ UNCHANGED <<pending, photoRound>>
                 ELSE IF result = "friends_forever"
                 THEN /\ conversations' =
                           setFriendsForever(conversations, conversationId)
                      /\ timeouts' =
                           clearTimerTimeouts(timeouts, activeTimers, conv.room_id)
                      /\ activeTimers' = clearTimerMap(activeTimers, conv.room_id)
                      /\ inserted' =
                           <<awardFriendsForever(conv.user1_id, conversationId),
                             awardFriendsForever(conv.user2_id, conversationId)>>
                      /\ emitted' =
                           <<ToRoom(conv.room_id, "extension-result",
                                    "friends_forever"),
                             ToRoom(conv.room_id, "friends-forever-confirmed",
                                    conversationId)>>
                      /\ UNCHANGED <<pending, photoRound, closedOnce>>
                 ELSE LET updated ==
                            extendConversation(conversations, conversationId)
                          count == updated[conversationId].extensions_count
                      IN /\ conversations' = updated
                         /\ inserted' =
                              <<awardExtension(conv.user1_id, conversationId, count),
                                awardExtension(conv.user2_id, conversationId, count)>>
                         /\ pendingPhotos' =
                              newPendingPhotos(pendingPhotos, conversationId)
                         /\ pendingRatings' =
                              newPendingRatings(pendingRatings, conversationId)
                         /\ emitted' =
                              <<ToRoom(conv.room_id, "extension-result",
                                       "photo_exchange"),
                                ToRoom(conv.room_id, "photo-exchange-start",
                                       conversationId)>>
                         /\ photoRound' =
                              MapSet(photoRound, conversationId,
                                     [start |-> Len(photo_exchanges),
                                      reveals |-> 0, raters |-> {}])
                         /\ UNCHANGED <<timerState, closedOnce>>
        /\ UNCHANGED <<env, photo_exchanges, mm, conn, disconnectTimers, mmLog,
                       roundStart>>

\* -------------------------------------------------------- photo exchange
\* the guard at the top of the PHOTO_EXCHANGE_SUBMIT handler
photoAccepted(conv) == conv # NoConv

\* created_at of a new photo_exchanges row: datetime('now') has a resolution
\* of one second, so the row carries the second of the latest row or a later
\* one
createdAt(rows, sameSecond) ==
  IF rows = <<>> THEN 1
  ELSE rows[Len(rows)].created_at + (IF sameSecond THEN 0 ELSE 1)

\* the results that SELECT ... WHERE conversation_id = ? ORDER BY created_at
\* DESC LIMIT 2 can return: rows of the same second come in any order
latestPhotos(rows, conversationId) ==
  LET mine == {i \in 1..Len(rows) : rows[i].conversation_id = conversationId}
  IN IF Cardinality(mine) < 2
     THEN {[k \in 1..Cardinality(mine) |-> rows[CHOOSE i \in mine : TRUE]]}
     ELSE {<<rows[i], rows[j]>> : <<i, j>> \in
             {p \in mine \X mine :
                /\ p[1] # p[2]
                /\ rows[p[2]].created_at <= rows[p[1]].created_at
                /\ \A k \in mine \ {p[1], p[2]} :
                     rows[k].created_at <= rows[p[2]].created_at}}

\* the tally test of the handler: pendingPhotos.get(conversationId).size >= 2
bothSubmitted(submitted) == Cardinality(submitted) >= 2

\* socket.on(PHOTO_EXCHANGE_SUBMIT); the photo URL names a fresh upload and is
\* represented by the number of the row that stores it
PhotoExchangeSubmit(s, conversationId, sameSecond) ==
  /\ s \in sockets
  /\ LET userId == OwnerOf(s)
         conv == getConversation(conversationId)
     IN /\ event' = [name |-> "photo-exchange-submit", socket |-> s,
                     userId |-> userId, conversationId |-> conversationId]
        /\ inserted' = <<>>
        /\ IF ~photoAccepted(conv)
           THEN /\ emitted' = <<>>
                /\ UNCHANGED <<photo_exchanges, pendingPhotos, photoRound>>
           ELSE
           LET rows == Append(photo_exchanges,
                              [conversation_id |-> conversationId,
                               sender_id |-> userId,
                               photo_url |-> Len(photo_exchanges) + 1,
                               created_at |-> createdAt(photo_exchanges,
                                                        sameSecond)])
               old == IF conversationId \in DOMAIN pendingPhotos
                      THEN pendingPhotos[conversationId] ELSE {}
               submitted == old \cup {userId}
           IN /\ photo_exchanges' = rows
              /\ pendingPhotos' = MapSet(pendingPhotos, conversationId, submitted)
              /\ IF bothSubmitted(submitted)
                 THEN /\ \E photos \in latestPhotos(rows, conversationId) :
                           emitted' =
                             <<ToRoom(conv.room_id, "photo-exchange-reveal",
                                 [conversationId |-> conversationId,
                                  photos |->
                                    [k \in 1..Len(photos) |->
                                       [userId |-> photos[k].sender_id,
                                        photoUrl |-> photos[k].photo_url]]])>>
                      /\ photoRound' =
                           IF conversationId \in DOMAIN photoRound
                           THEN [photoRound EXCEPT
                                   ![conversationId].reveals = @ + 1]
                           ELSE photoRound
                 ELSE /\ emitted' = <<ToSocket(s, "photo-received", "waiting")>>
                      /\ UNCHANGED photoRound
        /\ UNCHANGED <<env, conversations, extension_votes, mm, conn, timerState,
                       pendingRatings, disconnectTimers, mmLog, roundStart,
                       closedOnce>>

\* ---------------------------------------------------------------- rating
\* the scores the ratings table accepts: CHECK(score >= 1 AND score <= 5),
\* a comparison of numbers (a column of INTEGER affinity stores a number that
\* is not whole as it is); the INSERT of any other score throws and ends the
\* handler there
scoreCheck(score) == AtLeast(score, 1) /\ AtMost(score, 5)

\* the guard at the top of the RATE_PHOTO handler
rateAccepted(conv) == conv # NoConv

\* socket.on(RATE_PHOTO)
RatePhoto(s, conversationId, score) ==
  /\ s \in sockets
  /\ LET userId == OwnerOf(s)
         conv == getConversation(conversationId)
     IN /\ event' = [name |-> "rate-photo", socket |-> s, userId |-> userId,
                     conversationId |-> conversationId, score |-> score]
        /\ IF ~rateAccepted(conv) \/ ~scoreCheck(score)
           THEN /\ emitted' = <<>>
                /\ inserted' = <<>>
                /\ UNCHANGED <<conversations, timerState, pending, photoRound>>
           ELSE
           LET ratedId == getPartnerUserId(conv, userId)
               old == IF conversationId \in DOMAIN pendingRatings
                      THEN pendingRatings[conversationId] ELSE <<>>
               ratings == MapSet(old, userId, score)
               ratedSocketId == IF ratedId \in DOMAIN userSockets
                                THEN userSockets[ratedId] ELSE NoSocket
               notify == IF ratedSocketId \in sockets
                         THEN <<ToSocket(ratedSocketId, "rating-received",
                                  [score |-> score, raterId |-> userId])>>
                         ELSE <<>>
           IN /\ photoRound' =
                   IF conversationId \in DOMAIN photoRound
                   THEN [photoRound EXCEPT ![conversationId].raters =
                                             @ \cup {userId}]
                   ELSE photoRound
              /\ inserted' =
                   <<[table |-> "ratings", conversation_id |-> conversationId,
                      rater_id |-> userId, rated_id |-> ratedId,
                      score |-> score],
                     awardRating(ratedId, conversationId, score)>>
              /\ IF Cardinality(DOMAIN ratings) >= 2
                 THEN LET st == startTimer(timeouts, activeTimers,
                                   setActive(conversations, conversationId),
                                   conv.room_id, conversationId)
                      IN /\ pendingPhotos' =
                              MapDelete(pendingPhotos, conversationId)
                         /\ pendingRatings' =
                              MapDelete(pendingRatings, conversationId)
                         /\ conversations' = st.conversations
                         /\ timeouts' = st.timeouts
                         /\ activeTimers' = st.activeTimers
                         /\ emitted' = notify \o st.emitted
                 ELSE /\ pendingRatings' =
                           MapSet(pendingRatings, conversationId, ratings)
                      /\ emitted' = notify
                      /\ UNCHANGED <<conversations, timerState, pendingPhotos>>
        /\ UNCHANGED <<env, extension_votes, photo_exchanges, mm, conn,
                       disconnectTimers, mmLog, roundStart, closedOnce>>

\* ------------------------------------------------------------------ Next
\* bound on the conversations: a join-queue event that pairs two users is
\* explored only while the table holds fewer than max rows
ConvsBelow(s, max) ==
  tryMatch(addToQueue(queue, OwnerOf(s), s), conversations).match
    => Len(conversations) < max

\* bound on the vote rows: an accepted vote is explored only while the table
\* holds fewer than max rows
VoteRowsBelow(c, max) ==
  voteAccepted(getConversation(c)) => Len(extension_votes) < max

Sockets == {<<u, k>> : u \in Users, k \in 1..MaxConn}
ScoreInputs == {Whole(4)}

\* the conversation lifecycle: pairing, countdown, voting, rating

Members == 1..NumMembers
MemberSockets == {s \in Sockets : OwnerOf(s) \in Members}

\* every user connects and votes; the first NumMembers users also join the
\* queue and rate, the others stay outsiders of every conversation
Next ==
  \/ \E u \in Users : connCount[u] < MaxConn /\ Connect(u)
  \/ \E s \in MemberSockets : ConvsBelow(s, MaxConvs) /\ JoinQueue(s)
  \/ \E t \in timeouts : TimerWarning(t)
  \/ \E t \in timeouts : TimerExpiry(t)
  \/ \E s \in Sockets, c \in ConvIds, v \in VoteChoices :
       VoteRowsBelow(c, MaxVoteRows) /\ ExtensionVote(s, c, v)
  \/ \E s \in MemberSockets, c \in ConvIds, sc \in ScoreInputs : RatePhoto(s, c, sc)

Spec == Init /\ [][Next]_vars

\* ------------------------------------------------- chat specification
\* pairing, countdown, voting and the two chat handlers
NextChat ==
  \/ \E u \in Users : connCount[u] < MaxConn /\ Connect(u)
  \/ \E s \in Sockets : ConvsBelow(s, MaxConvs) /\ JoinQueue(s)
  \/ \E t \in timeouts : TimerWarning(t)
  \/ \E t \in timeouts : TimerExpiry(t)
  \/ \E s \in Sockets, c \in ConvIds, v \in VoteChoices :
       VoteRowsBelow(c, MaxVoteRows) /\ ExtensionVote(s, c, v)
  \/ \E s \in Sockets, c \in ConvIds : SendMessage(s, c)
  \/ \E s \in Sockets, c \in ConvIds : SendVoiceNote(s, c)

SpecChat == Init /\ [][NextChat]_vars

\* ------------------------------------------ fair timer specification
\* the conversation lifecycle when Node's event loop runs every scheduled
\* timer callback that stays pending, whatever its room
SpecTimerFair ==
  /\ Init
  /\ [][Next]_vars
  /\ \A r \in ConvIds :
       /\ WF_vars(\E t \in timeouts : t.roomId = r /\ TimerWarning(t))
       /\ WF_vars(\E t \in timeouts : t.roomId = r /\ TimerExpiry(t))

\* ------------------------------------- photo exchange specification
\* one extension round of two paired users, with photo submissions from
\* every connected user at any time
MaxPhotoRows == 3

PhotoRowsBelow(c, max) ==
  photoAccepted(getConversation(c)) => Len(photo_exchanges) < max

NextPhoto ==
  \/ \E u \in Users : connCount[u] < MaxConn /\ Connect(u)
  \/ \E s \in MemberSockets : ConvsBelow(s, MaxConvs) /\ JoinQueue(s)
  \/ \E t \in timeouts : TimerWarning(t)
  \/ \E t \in timeouts : TimerExpiry(t)
  \/ \E s \in MemberSockets, c \in ConvIds :
       VoteRowsBelow(c, MaxVoteRows) /\ ExtensionVote(s, c, "extend")
  \/ \E s \in Sockets, c \in ConvIds, same \in BOOLEAN :
       PhotoRowsBelow(c, MaxPhotoRows) /\ PhotoExchangeSubmit(s, c, same)

SpecPhoto == Init /\ [][NextPhoto]_vars

\* --------------------------------------------- rating specification
\* one extension round of two paired users, with ratings from every
\* connected user at any time; the scores sent are whole numbers inside and
\* outside the accepted range and a number that is not whole
RatingInputs == {Whole(0), Fraction(5, 2), Whole(5), Whole(6)}

NextRating ==
  \/ \E u \in Users : connCount[u] < MaxConn /\ Connect(u)
  \/ \E s \in MemberSockets : ConvsBelow(s, MaxConvs) /\ JoinQueue(s)
  \/ \E t \in timeouts : TimerWarning(t)
  \/ \E t \in timeouts : TimerExpiry(t)
  \/ \E s \in MemberSockets, c \in ConvIds :
       VoteRowsBelow(c, MaxVoteRows) /\ ExtensionVote(s, c, "extend")
  \/ \E s \in Sockets, c \in ConvIds, sc \in RatingInputs : RatePhoto(s, c, sc)

SpecRating == Init /\ [][NextRating]_vars

\* --------------------------------------------- streak specification
\* two paired users who keep extending: countdown, extend votes and ratings,
\* round after round
MaxStreakVoteRows == 6

NextStreak ==
  \/ \E u \in Members : connCount[u] < MaxConn /\ Connect(u)
  \/ \E s \in MemberSockets : ConvsBelow(s, MaxConvs) /\ JoinQueue(s)
  \/ \E t \in timeouts : TimerWarning(t)
  \/ \E t \in timeouts : TimerExpiry(t)
  \/ \E s \in MemberSockets, c \in ConvIds :
       VoteRowsBelow(c, MaxStreakVoteRows) /\ ExtensionVote(s, c, "extend")
  \/ \E s \in MemberSockets, c \in DOMAIN conversations, sc \in ScoreInputs :
       RatePhoto(s, c, sc)

SpecStreak == Init /\ [][NextStreak]_vars

\* ----------------------------------------- disconnect specification
\* pairing and countdown of two users who open and close several sockets;
\* a grace callback may fire at any step after its disconnect
MaxGraceConn == 2

NextGrace ==
  \/ \E u \in Members : connCount[u] < MaxGraceConn /\ Connect(u)
  \/ \E s \in sockets : Disconnect(s)
  \/ \E t \in timeouts : GraceExpiry(t)
  \/ \E s \in sockets : ConvsBelow(s, MaxConvs) /\ JoinQueue(s)
  \/ \E s \in sockets : LeaveQueue(s)
  \/ \E t \in timeouts : TimerWarning(t)
  \/ \E t \in timeouts : TimerExpiry(t)

SpecGrace == Init /\ [][NextGrace]_vars

\* ---------------------------------- disconnect and vote specification
\* two users with one socket each who vote and disconnect
NextGraceVote ==
  \/ \E u \in Members : connCount[u] < MaxConn /\ Connect(u)
  \/ \E s \in sockets : Disconnect(s)
  \/ \E t \in timeouts : GraceExpiry(t)
  \/ \E s \in sockets : ConvsBelow(s, MaxConvs) /\ JoinQueue(s)
  \/ \E t \in timeouts : TimerWarning(t)
  \/ \E t \in timeouts : TimerExpiry(t)
  \/ \E s \in sockets, c \in DOMAIN conversations, v \in VoteChoices :
       VoteRowsBelow(c, MaxVoteRows) /\ ExtensionVote(s, c, v)

SpecGraceVote == Init /\ [][NextGraceVote]_vars

\* ------------------------------------------- re-queue specification
\* two users with one socket each who may join the queue again while their
\* conversation is live, and whose grace callbacks are eventually run
MaxRejoinConvs == 2

NextRejoin ==
  \/ \E u \in Members : connCount[u] < MaxConn /\ Connect(u)
  \/ \E s \in sockets : Disconnect(s)
  \/ \E t \in timeouts : GraceExpiry(t)
  \/ \E s \in sockets : ConvsBelow(s, MaxRejoinConvs) /\ JoinQueue(s)
  \/ \E t \in timeouts : TimerWarning(t)
  \/ \E t \in timeouts : TimerExpiry(t)

SpecRejoinFair ==
  /\ Init
  /\ [][NextRejoin]_vars
  /\ \A u \in Users :
       WF_vars(\E t \in timeouts : t.userId = u /\ GraceExpiry(t))

\* ------------------------------------ configured timer specification
\* two paired users in a conversation cycle, for each configured duration
NextConfigured ==
  \/ \E u \in Members : connCount[u] < MaxConn /\ Connect(u)
  \/ \E s \in MemberSockets : ConvsBelow(s, MaxConvs) /\ JoinQueue(s)
  \/ \E t \in timeouts : TimerWarning(t)
  \/ \E t \in timeouts : TimerExpiry(t)
  \/ \E s \in MemberSockets, c \in ConvIds :
       VoteRowsBelow(c, MaxVoteRows) /\ ExtensionVote(s, c, "extend")
  \/ \E s \in MemberSockets, c \in DOMAIN conversations, sc \in ScoreInputs :
       RatePhoto(s, c, sc)

SpecConfigured == InitConfigured /\ [][NextConfigured]_vars

\* ------------------------------------------- exchange specification
\* two paired users through extension rounds, with photo submissions and
\* ratings from both at any time
NextExchange ==
  \/ \E u \in Members : connCount[u] < MaxConn /\ Connect(u)
  \/ \E s \in MemberSockets : ConvsBelow(s, MaxConvs) /\ JoinQueue(s)
  \/ \E t \in timeouts : TimerWarning(t)
  \/ \E t \in timeouts : TimerExpiry(t)
  \/ \E s \in MemberSockets, c \in DOMAIN conversations :
       VoteRowsBelow(c, MaxVoteRows) /\ ExtensionVote(s, c, "extend")
  \/ \E s \in MemberSockets, c \in DOMAIN conversations, same \in BOOLEAN :
       PhotoRowsBelow(c, MaxPhotoRows) /\ PhotoExchangeSubmit(s, c, same)
  \/ \E s \in MemberSockets, c \in DOMAIN conversations, sc \in ScoreInputs :
       RatePhoto(s, c, sc)

SpecExchange == Init /\ [][NextExchange]_vars

\* --------------------------------------- store failure specification
\* A statement of the persisted store that throws ends the handler at that
\* statement: what the handler did before it stays done, the rest is not
\* run. The event of such a step carries the place of the throw.

\* JOIN_QUEUE when the INSERT INTO conversations of tryMatch throws: the
\* sender is enqueued and both head entries are already shifted out
JoinQueueInsertThrows(s) ==
  /\ s \in sockets
  /\ LET userId == OwnerOf(s)
         q1 == addToQueue(queue, userId, s)
         m == tryMatch(q1, conversations)
     IN /\ m.match
        /\ userSockets' = MapSet(userSockets, userId, s)
        /\ queue' = m.queue
        /\ event' = [name |-> "join-queue", socket |-> s, userId |-> userId,
                     threw |-> "tryMatch"]
        /\ emitted' = <<>>
        /\ inserted' = <<>>
        /\ UNCHANGED <<env, db, conn, timerState, pending, disconnectTimers,
                       ghost>>

\* EXTENSION_VOTE, PHOTO_EXCHANGE_SUBMIT or RATE_PHOTO when the INSERT of
\* the vote, photo or rating row throws: it is the first statement after the
\* guard of the handler
RowInsertThrows(s, name, conversationId) ==
  /\ s \in sockets
  /\ LET conv == getConversation(conversationId)
     IN CASE name = "extension-vote" -> voteAccepted(conv)
          [] name = "photo-exchange-submit" -> photoAccepted(conv)
          [] name = "rate-photo" -> rateAccepted(conv)
  /\ event' = [name |-> name, socket |-> s, userId |-> OwnerOf(s),
               conversationId |-> conversationId, threw |-> "insert"]
  /\ emitted' = <<>>
  /\ inserted' = <<>>
  /\ UNCHANGED <<env, db, mm, conn, timerState, pending, disconnectTimers,
                 ghost>>

\* RATE_PHOTO of the second rater when a status update of the completion
\* branch throws: the UPDATE of setActive (site "setActive") or, after
\* clearTimer, the UPDATE of startTimer (site "startTimer")
RatePhotoCompletionThrows(s, conversationId, score, site) ==
  /\ s \in sockets
  /\ LET userId == OwnerOf(s)
         conv == getConversation(conversationId)
     IN /\ rateAccepted(conv)
        /\ scoreCheck(score)
        /\ LET ratedId == getPartnerUserId(conv, userId)
               old == IF conversationId \in DOMAIN pendingRatings
                      THEN pendingRatings[conversationId] ELSE <<>>
               ratings == MapSet(old, userId, score)
               ratedSocketId == IF ratedId \in DOMAIN userSockets
                                THEN userSockets[ratedId] ELSE NoSocket
           IN /\ Cardinality(DOMAIN ratings) >= 2
              /\ event' = [name |-> "rate-photo", socket |-> s,
                           userId |-> userId,
                           conversationId |-> conversationId,
                           score |-> score, threw |-> site]
              /\ photoRound' =
                   IF conversationId \in DOMAIN photoRound
                   THEN [photoRound EXCEPT ![conversationId].raters =
                                             @ \cup {userId}]
                   ELSE photoRound
              /\ inserted' =
                   <<[table |-> "ratings", conversation_id |-> conversationId,
                      rater_id |-> userId, rated_id |-> ratedId,
                      score |-> score],
                     awardRating(ratedId, conversationId, score)>>
              /\ emitted' = IF ratedSocketId \in sockets
                            THEN <<ToSocket(ratedSocketId, "rating-received",
                                     [score |-> score, raterId |-> userId])>>
                            ELSE <<>>
              /\ pendingPhotos' = MapDelete(pendingPhotos, conversationId)
              /\ pendingRatings' = MapDelete(pendingRatings, conversationId)
              /\ IF site = "setActive"
                 THEN UNCHANGED <<conversations, timerState>>
                 ELSE /\ conversations' =
                           setActive(conversations, conversationId)
                      /\ timeouts' = clearTimerTimeouts(timeouts, activeTimers,
                                                        conv.room_id)
                      /\ activeTimers' = clearTimerMap(activeTimers,
                                                       conv.room_id)
  /\ UNCHANGED <<env, extension_votes, photo_exchanges, mm, conn,
                 disconnectTimers, mmLog, roundStart, closedOnce>>

ThrowingHandlers == {"extension-vote", "photo-exchange-submit", "rate-photo"}
CompletionSites == {"setActive", "startTimer"}

\* two paired users in a conversation cycle whose store writes may throw
NextStoreFailure ==
  \/ \E u \in Members : connCount[u] < MaxConn /\ Connect(u)
  \/ \E s \in MemberSockets : ConvsBelow(s, MaxConvs) /\ JoinQueue(s)
  \/ \E s \in MemberSockets : JoinQueueInsertThrows(s)
  \/ \E t \in timeouts : TimerWarning(t)
  \/ \E t \in timeouts : TimerExpiry(t)
  \/ \E s \in MemberSockets, c \in ConvIds :
       VoteRowsBelow(c, MaxVoteRows) /\ ExtensionVote(s, c, "extend")
  \/ \E s \in MemberSockets, c \in DOMAIN conversations, sc \in ScoreInputs :
       RatePhoto(s, c, sc)
  \/ \E s \in MemberSockets, c \in ConvIds, name \in ThrowingHandlers :
       RowInsertThrows(s, name, c)
  \/ \E s \in MemberSockets, c \in DOMAIN conversations, sc \in ScoreInputs,
        site \in CompletionSites : RatePhotoCompletionThrows(s, c, sc, site)

SpecStoreFailure == Init /\ [][NextStoreFailure]_vars

\* ------------------------------------------- matchmaker specification
\* the exported matchmaker functions called directly, in any order
NumQueueUsers == 4
QueueUsers == 1..NumQueueUsers

CallAddToQueue(u) ==
  /\ Len(mmLog.enq) < MaxQueueOps
  /\ queue' = addToQueue(queue, u, <<u, 1>>)
  /\ userSockets' = MapSet(userSockets, u, <<u, 1>>)
  /\ mmLog' = [mmLog EXCEPT !.enq = Append(@, u), !.ret = "none"]
  /\ event' = [name |-> "addToQueue", userId |-> u]
  /\ emitted' = <<>>
  /\ inserted' = <<>>
  /\ UNCHANGED <<env, db, conn, timerState, pending, disconnectTimers, roundStart,
                 photoRound, closedOnce>>

CallRemoveFromQueue(u) ==
  /\ queue' = removeFromQueue(queue, u)
  /\ mmLog' = [mmLog EXCEPT !.dequeued = TRUE, !.ret = "none"]
  /\ event' = [name |-> "removeFromQueue", userId |-> u]
  /\ emitted' = <<>>
  /\ inserted' = <<>>
  /\ UNCHANGED <<env, db, userSockets, conn, timerState, pending,
                 disconnectTimers, roundStart, photoRound, closedOnce>>

CallTryMatch ==
  LET m == tryMatch(queue, conversations)
  IN /\ queue' = m.queue
     /\ conversations' = m.conversations
     /\ mmLog' = IF m.match
                 THEN [mmLog EXCEPT
                         !.pairs = Append(@, <<m.user1.userId, m.user2.userId>>),
                         !.ret = "match"]
                 ELSE [mmLog EXCEPT !.ret = "null"]
     /\ event' = [name |-> "tryMatch"]
     /\ emitted' = <<>>
     /\ inserted' = <<>>
     /\ UNCHANGED <<env, extension_votes, photo_exchanges, userSockets, conn,
                    timerState, pending, disconnectTimers, roundStart,
                    photoRound, closedOnce>>

\* unregisterSocket, the matchmaker's part of a disconnect: drop the presence
\* entry and dequeue the user
CallUnregisterSocket(u) ==
  /\ userSockets' = MapDelete(userSockets, u)
  /\ queue' = removeFromQueue(queue, u)
  /\ mmLog' = [mmLog EXCEPT !.dequeued = TRUE, !.ret = "none"]
  /\ event' = [name |-> "unregisterSocket", userId |-> u]
  /\ emitted' = <<>>
  /\ inserted' = <<>>
  /\ UNCHANGED <<env, db, conn, timerState, pending, disconnectTimers, roundStart,
                 photoRound, closedOnce>>

NextMM ==
  \/ \E u \in QueueUsers : CallAddToQueue(u)
  \/ \E u \in QueueUsers : CallRemoveFromQueue(u)
  \/ \E u \in QueueUsers : CallUnregisterSocket(u)
  \/ CallTryMatch

SpecMM == Init /\ [][NextMM]_vars


\* ====================================================================
\*  Properties
\* ====================================================================
\* the rows of (conversation c, round r) in a votes table, their voters and
\* the latest vote of a voter
RoundRows(rows, c, r) ==
  {i \in 1..Len(rows) : rows[i].conversation_id = c /\ rows[i].round = r}
Voters(rows, c, r) == {rows[i].user_id : i \in RoundRows(rows, c, r)}
LatestVote(rows, c, r, u) ==
  LET mine == {i \in RoundRows(rows, c, r) : rows[i].user_id = u}
  IN rows[CHOOSE i \in mine : \A j \in mine : j <= i].vote

ResultsEmitted(em) == {i \in 1..Len(em) : em[i].ev = "extension-result"}

TableOutcome(a, b) ==
  IF a = "leave" \/ b = "leave" THEN CLOSED
  ELSE IF a = "friends_forever" /\ b = "friends_forever" THEN FRIENDS_FOREVER
  ELSE PHOTO_EXCHANGE

\* C1: when the EXTENSION_VOTE handler resolves a round whose voters are
\* exactly the two participants, the conversation's new status follows the
\* table (any leave: closed; both friends_forever: friends_forever; otherwise
\* photo_exchange), extensions_count grows by one exactly in the
\* photo_exchange case, and one extension-result naming that outcome is
\* emitted to the room.
VoteResolutionTable ==
  [][(event'.name = "extension-vote" /\ ResultsEmitted(emitted') # {}) =>
       LET c == event'.conversationId
           conv == conversations[c]
           r == conv.extensions_count + 1
       IN Voters(extension_votes', c, r) = {conv.user1_id, conv.user2_id} =>
            LET expected ==
                  TableOutcome(LatestVote(extension_votes', c, r, conv.user1_id),
                               LatestVote(extension_votes', c, r, conv.user2_id))
            IN /\ conversations'[c].status = expected
               /\ conversations'[c].extensions_count =
                    conv.extensions_count
                      + (IF expected = PHOTO_EXCHANGE THEN 1 ELSE 0)
               /\ Cardinality(ResultsEmitted(emitted')) = 1
               /\ emitted'[1] = ToRoom(conv.room_id, "extension-result", expected)
    ]_vars

\* C1 witness: a round resolved from leave + friends_forever of the two
\* participants
VoteResolutionTableWitness ==
  /\ event.name = "extension-vote"
  /\ ResultsEmitted(emitted) # {}
  /\ LET c == event.conversationId
         conv == conversations[c]
     IN /\ conv.status = CLOSED
        /\ Len(extension_votes) = 2
        /\ {extension_votes[1].user_id, extension_votes[2].user_id}
             = {conv.user1_id, conv.user2_id}
        /\ conv.user1_id # conv.user2_id
        /\ {extension_votes[1].vote, extension_votes[2].vote}
             = {"leave", "friends_forever"}

\* C2: once a conversation is CLOSED, no step changes its status.
ClosedIsTerminal ==
  [][\A c \in DOMAIN conversations :
       conversations[c].status = CLOSED => conversations'[c].status = CLOSED
    ]_vars

\* C3: once a conversation is FRIENDS_FOREVER, its status stays
\* FRIENDS_FOREVER or becomes CLOSED, and no room timer is started for it.
FriendsForeverAbsorbing ==
  [][\A c \in DOMAIN conversations :
       conversations[c].status = FRIENDS_FOREVER =>
         /\ conversations'[c].status \in {FRIENDS_FOREVER, CLOSED}
         /\ conversations[c].room_id \notin DOMAIN activeTimers'
    ]_vars

\* C4: a conversation becomes FRIENDS_FOREVER, and the friends-forever bonus
\* is awarded, only in a step after which each of its two participants has a
\* friends_forever vote in the round being resolved.
FriendsForeverOnlyUnanimous ==
  [][\A c \in DOMAIN conversations :
       (\/ /\ conversations[c].status # FRIENDS_FOREVER
           /\ conversations'[c].status = FRIENDS_FOREVER
        \/ \E i \in 1..Len(inserted') :
             /\ inserted'[i].table = "points_log"
             /\ inserted'[i].event_type = "friends_forever"
             /\ inserted'[i].conversation_id = c)
       => \A u \in {conversations[c].user1_id, conversations[c].user2_id} :
            \E i \in RoundRows(extension_votes', c,
                               conversations[c].extensions_count + 1) :
              /\ extension_votes'[i].user_id = u
              /\ extension_votes'[i].vote = "friends_forever"
    ]_vars

\* C5: a vote accepted while fewer than two distinct users have a vote
\* recorded for the current round (this vote included) only acknowledges the
\* caller with vote-received and leaves the status EXTENSION_PENDING.
ResolveOnlyWithTwoVoters ==
  [][(/\ event'.name = "extension-vote"
      /\ voteAccepted(getConversation(event'.conversationId))
      /\ Cardinality(Voters(extension_votes', event'.conversationId,
           conversations[event'.conversationId].extensions_count + 1)) < 2)
     => /\ emitted' = <<ToSocket(event'.socket, "vote-received", "waiting")>>
        /\ conversations'[event'.conversationId].status = EXTENSION_PENDING
    ]_vars

\* C6: whenever the EXTENSION_VOTE handler resolves a round, every row of
\* that round was inserted after the conversation last entered
\* EXTENSION_PENDING.
RoundIsolation ==
  [][(event'.name = "extension-vote" /\ ResultsEmitted(emitted') # {}) =>
       LET c == event'.conversationId
       IN \A i \in RoundRows(extension_votes', c,
                             conversations[c].extensions_count + 1) :
            i > roundStart[c]
    ]_vars

\* C7: an extension-vote event for a conversation that does not exist or is
\* not EXTENSION_PENDING changes no table, no timer and no pending set,
\* awards nothing and emits nothing.
StaleVoteIgnored ==
  [][(/\ event'.name = "extension-vote"
      /\ LET conv == getConversation(event'.conversationId)
         IN conv = NoConv \/ conv.status # EXTENSION_PENDING)
     => /\ UNCHANGED <<conversations, extension_votes, activeTimers, timeouts,
                       pendingPhotos, pendingRatings>>
        /\ emitted' = <<>>
        /\ inserted' = <<>>
    ]_vars

\* C7 witness: a vote has just been handled for an existing conversation
\* that is CLOSED
StaleVoteIgnoredWitness ==
  /\ event.name = "extension-vote"
  /\ getConversation(event.conversationId) # NoConv
  /\ getConversation(event.conversationId).status = CLOSED
  /\ emitted = <<>>

\* C8: an extension-vote event from a user who is not a participant of the
\* conversation inserts no vote row, changes no conversation and awards
\* nothing.
OutsiderVoteDropped ==
  [][(/\ event'.name = "extension-vote"
      /\ getConversation(event'.conversationId) # NoConv
      /\ ~isParticipant(getConversation(event'.conversationId), event'.userId))
     => /\ UNCHANGED <<conversations, extension_votes>>
        /\ inserted' = <<>>
    ]_vars

\* C9: a text or voice message for a nonexistent conversation or from a
\* non-participant inserts no row and emits nothing; a participant's message
\* inserts exactly one messages row (its conversation, sender and type) and
\* emits exactly one new-message carrying that row to the conversation's
\* room.
ChatAuthorization ==
  [][(event'.name \in {"text", "voice"}) =>
       LET c == event'.conversationId
           u == event'.userId
       IN IF c \notin DOMAIN conversations
             \/ u \notin {conversations[c].user1_id, conversations[c].user2_id}
          THEN inserted' = <<>> /\ emitted' = <<>>
          ELSE /\ inserted' = <<[table |-> "messages", conversation_id |-> c,
                                 sender_id |-> u,
                                 message_type |-> event'.name]>>
               /\ emitted' = <<ToRoom(conversations[c].room_id, "new-message",
                                      inserted'[1])>>
    ]_vars

\* C9 witness: a voice note of the second participant has been stored and
\* broadcast
ChatAuthorizationWitness ==
  /\ event.name = "voice"
  /\ event.conversationId \in DOMAIN conversations
  /\ event.userId = conversations[event.conversationId].user2_id
  /\ Len(inserted) = 1
  /\ Len(emitted) = 1

\* C10: when the users enqueued so far are all different and nobody was
\* dequeued, the k-th pair returned by tryMatch is the (2k-1)-th and 2k-th
\* user enqueued; and tryMatch on a queue of fewer than two entries returns
\* null and leaves the queue and the conversations table unchanged.
NoDuplicates(seq) ==
  \A i, j \in 1..Len(seq) : seq[i] = seq[j] => i = j

QueueFifo ==
  /\ []((~mmLog.dequeued /\ NoDuplicates(mmLog.enq)) =>
          \A k \in 1..Len(mmLog.pairs) :
            /\ 2 * k <= Len(mmLog.enq)
            /\ mmLog.pairs[k] = <<mmLog.enq[2 * k - 1], mmLog.enq[2 * k]>>)
  /\ [][(event'.name = "tryMatch" /\ Len(queue) < 2) =>
          /\ mmLog'.ret = "null"
          /\ UNCHANGED <<queue, conversations>>
       ]_vars

\* C10 witness: four different users enqueued, nobody dequeued, two pairs
\* returned
QueueFifoWitness ==
  /\ ~mmLog.dequeued
  /\ NoDuplicates(mmLog.enq)
  /\ Len(mmLog.enq) = 4
  /\ Len(mmLog.pairs) = 2

\* C11: the queue never holds two entries of one user, and no pair returned
\* by tryMatch (no conversation row) has the same user on both sides.
IdempotentReenqueue ==
  /\ \A i, j \in 1..Len(queue) : queue[i].userId = queue[j].userId => i = j
  /\ \A k \in 1..Len(mmLog.pairs) : mmLog.pairs[k][1] # mmLog.pairs[k][2]
  /\ \A c \in DOMAIN conversations :
       conversations[c].user1_id # conversations[c].user2_id

\* C11 witness: a user still waiting in the queue has been enqueued again
\* behind a second user, and the queue holds one entry for each of the two
IdempotentReenqueueWitness ==
  /\ event.name = "addToQueue"
  /\ ~mmLog.dequeued
  /\ mmLog.pairs = <<>>
  /\ Len(mmLog.enq) = 3
  /\ mmLog.enq[1] = mmLog.enq[3]
  /\ mmLog.enq[1] # mmLog.enq[2]
  /\ Len(queue) = 2

\* the pending callbacks of one kind that a room's timers scheduled
PendingOf(kind, roomId) ==
  {t \in timeouts : t.kind = kind /\ t.roomId = roomId}

\* C12: at any time a room has at most one pending expiry callback and at
\* most one pending warning callback, and each pending callback is the one
\* the timer map holds for the room: the callbacks of a timer that a later
\* startTimer replaced are cancelled and never fire.
TimerMonotonicity ==
  /\ \A c \in DOMAIN conversations :
       /\ Cardinality(PendingOf("expiry", conversations[c].room_id)) <= 1
       /\ Cardinality(PendingOf("warning", conversations[c].room_id)) <= 1
  /\ \A t \in timeouts :
       t.kind \in {"expiry", "warning"} =>
         /\ t.roomId \in DOMAIN activeTimers
         /\ t.id = IF t.kind = "expiry"
                   THEN activeTimers[t.roomId].timeout
                   ELSE activeTimers[t.roomId].warningTimeout

\* C12 witness: a rating completion has called startTimer on a room whose
\* first timer had never expired, and one expiry callback is pending
TimerMonotonicityWitness ==
  /\ event.name = "rate-photo"
  /\ \E i \in 1..Len(emitted) : emitted[i].ev = "timer-start"
  /\ DOMAIN roundStart = {}
  /\ Cardinality(PendingOf("expiry",
                           conversations[event.conversationId].room_id)) = 1

\* C13: a grace callback closes a conversation only when the user it was
\* started for has no connected socket: a user who is connected when the
\* grace window ends (reconnected after the disconnect, or connected with a
\* newer socket before the old one went away) keeps the conversation.
GraceCancellation ==
  [][(/\ event'.name = "grace-expiry"
      /\ conversations[event'.conversationId].status # CLOSED
      /\ conversations'[event'.conversationId].status = CLOSED)
     => \A s \in sockets : OwnerOf(s) # event'.userId
    ]_vars

\* C14: a connection event changes no conversation, and for a CLOSED
\* conversation of the connecting user the new socket joins no room of it and
\* is sent no rejoin-conversation for it.
ReconnectKeepsClosed ==
  [][event'.name = "connection" =>
       /\ UNCHANGED conversations
       /\ \A c \in DOMAIN conversations :
            (/\ conversations[c].status = CLOSED
             /\ isParticipant(conversations[c], event'.userId))
            => /\ <<event'.socket, conversations[c].room_id>> \notin rooms'
               /\ \A i \in 1..Len(emitted') :
                    ~(/\ emitted'[i].ev = "rejoin-conversation"
                      /\ emitted'[i].data.conversationId = c)
    ]_vars

\* C14 witness: a user has connected again after their own grace expiry
\* closed the conversation (the partner never disconnected)
ReconnectKeepsClosedWitness ==
  /\ event.name = "connection"
  /\ connCount[event.userId] = 2
  /\ \E c \in DOMAIN conversations :
       /\ conversations[c].status = CLOSED
       /\ isParticipant(conversations[c], event.userId)
       /\ LET p == getPartnerUserId(conversations[c], event.userId)
          IN connCount[p] = 1 /\ <<p, 1>> \in sockets

\* the users who submitted a photo for conversation c since its latest
\* photo-exchange round began, and the reveal events in a list of emissions
RoundSubmitters(rows, c) ==
  {rows[i].sender_id :
     i \in {k \in 1..Len(rows) : /\ k > photoRound[c].start
                                  /\ rows[k].conversation_id = c}}
Participants(c) == {conversations[c].user1_id, conversations[c].user2_id}
RevealsEmitted(em) == {i \in 1..Len(em) : em[i].ev = "photo-exchange-reveal"}
InPhotoRound(c) ==
  c \in DOMAIN conversations /\ conversations[c].status = PHOTO_EXCHANGE

\* C15: a photo submission to a conversation in PHOTO_EXCHANGE emits a
\* reveal only if, this submission included, both participants have
\* submitted in the round; otherwise it emits exactly photo-received
\* (waiting) to the submitter.
PhotoRevealWaitsForBoth ==
  [][(event'.name = "photo-exchange-submit" /\ InPhotoRound(event'.conversationId))
     => LET c == event'.conversationId
            both == Participants(c) \subseteq RoundSubmitters(photo_exchanges', c)
        IN /\ RevealsEmitted(emitted') # {} => both
           /\ ~both =>
                emitted' = <<ToSocket(event'.socket, "photo-received", "waiting")>>
    ]_vars

\* C16: a photo submission to a conversation in PHOTO_EXCHANGE emits a
\* reveal only if no reveal has been emitted for the conversation since the
\* round began.
OneRevealPerRound ==
  [][(/\ event'.name = "photo-exchange-submit"
      /\ InPhotoRound(event'.conversationId)
      /\ RevealsEmitted(emitted') # {})
     => photoRound[event'.conversationId].reveals = 0
    ]_vars

\* C17: the reveal emitted for a conversation in PHOTO_EXCHANGE carries
\* exactly two (userId, photoUrl) pairs, the photos of two rows submitted
\* since the round began, one by each participant.
RevealCarriesBothPhotos ==
  [][(/\ event'.name = "photo-exchange-submit"
      /\ InPhotoRound(event'.conversationId)
      /\ RevealsEmitted(emitted') # {})
     => LET c == event'.conversationId
            rows == photo_exchanges'
            photos == emitted'[1].data.photos
            round == {k \in 1..Len(rows) : /\ k > photoRound[c].start
                                           /\ rows[k].conversation_id = c}
            pair(k) == [userId |-> rows[k].sender_id,
                        photoUrl |-> rows[k].photo_url]
        IN /\ Len(photos) = 2
           /\ \E i, j \in round :
                /\ {rows[i].sender_id, rows[j].sender_id} = Participants(c)
                /\ rows[i].sender_id # rows[j].sender_id
                /\ {photos[1], photos[2]} = {pair(i), pair(j)}
    ]_vars

PointsRows(ins) == {i \in 1..Len(ins) : ins[i].table = "points_log"}
StarScores == {Whole(k) : k \in 1..5}

\* C18: a rate-photo event on an existing conversation with a score among
\* 1, 2, 3, 4, 5 credits exactly one award: to a participant other than the
\* rater (the rater's partner when the rater is a participant), of score x 5
\* points; a rate-photo event with any other score credits nothing and
\* leaves the pending ratings, the conversation and the timers unchanged.
RatingAwardsPartner ==
  [][event'.name = "rate-photo" =>
       LET c == event'.conversationId
           a == event'.userId
       IN IF c \in DOMAIN conversations /\ event'.score \in StarScores
          THEN /\ Cardinality(PointsRows(inserted')) = 1
               /\ \A i \in PointsRows(inserted') :
                    /\ inserted'[i].user_id \in Participants(c) \ {a}
                    /\ a \in Participants(c) =>
                         inserted'[i].user_id =
                           getPartnerUserId(conversations[c], a)
                    /\ inserted'[i].points \in {Whole(p) : p \in {5, 10, 15, 20, 25}}
                    /\ inserted'[i].points = Whole(event'.score.n * 5)
          ELSE /\ inserted' = <<>>
               /\ UNCHANGED <<pendingRatings, conversations, activeTimers>>
    ]_vars

\* C19: an accepted rating on a conversation in PHOTO_EXCHANGE completes the
\* round (pending photo and rating entries removed, status ACTIVE, a room
\* timer started) if with it both participants have rated since the round
\* began; otherwise the status stays PHOTO_EXCHANGE and no timer is started.
RatingRoundCompletion ==
  [][(/\ event'.name = "rate-photo"
      /\ InPhotoRound(event'.conversationId)
      /\ inserted' # <<>>)
     => LET c == event'.conversationId
            room == conversations[c].room_id
        IN IF Participants(c) \subseteq photoRound'[c].raters
           THEN /\ c \notin DOMAIN pendingPhotos'
                /\ c \notin DOMAIN pendingRatings'
                /\ conversations'[c].status = ACTIVE
                /\ room \in DOMAIN activeTimers'
                /\ \E t \in timeouts' : t.kind = "expiry" /\ t.roomId = room
           ELSE /\ conversations'[c].status = PHOTO_EXCHANGE
                /\ UNCHANGED activeTimers
                /\ \A i \in 1..Len(emitted') : emitted'[i].ev # "timer-start"
    ]_vars

\* C20: an extension-vote event that extends the conversation (its
\* extensions_count grows) inserts exactly two awards, one extension award
\* for each participant, of 25 points when the new count is 1 or 2 and of 35
\* points when it is 3 or more.
StreakBonusBoundary ==
  [][(/\ event'.name = "extension-vote"
      /\ event'.conversationId \in DOMAIN conversations
      /\ conversations'[event'.conversationId].extensions_count
           # conversations[event'.conversationId].extensions_count)
     => LET c == event'.conversationId
            count == conversations'[c].extensions_count
            award(u) == [table |-> "points_log", user_id |-> u,
                         conversation_id |-> c, event_type |-> "extension",
                         points |-> IF count >= 3 THEN 35 ELSE 25]
        IN /\ count = conversations[c].extensions_count + 1
           /\ inserted' = <<award(conversations[c].user1_id),
                            award(conversations[c].user2_id)>>
    ]_vars

\* C20 witness: the third extension has just been resolved and awarded with
\* the bonus
StreakBonusBoundaryWitness ==
  /\ event.name = "extension-vote"
  /\ Len(inserted) = 2
  /\ inserted[1].event_type = "extension"
  /\ inserted[1].points = 35
  /\ conversations[event.conversationId].extensions_count = 3
  /\ conversations[event.conversationId].status = PHOTO_EXCHANGE

\* --------------------------------------------------------------------
\* C21: once a conversation has been closed, by a leave vote or by a grace
\* expiry, no timer callback fires for its room any more: no later step is
\* the warning or the expiry callback of that conversation's room, so none
\* of timer-warning, timer-expired and extension-prompt is emitted to it.
NoTimerAfterClose ==
  [][event'.name \in {"timer-warning", "timer-expiry"}
       => event'.conversationId \notin closedOnce]_vars

\* --------------------------------------------------------------------
\* C22: presence, last connection wins: while the connection that
\* userSockets holds for a user stays connected, getSocketId keeps returning
\* it; the disconnect of another, older socket of the same user neither
\* removes nor replaces that entry.
PresenceLastWins ==
  [][\A u \in DOMAIN userSockets :
       (/\ event'.name = "disconnect"
        /\ event'.userId = u
        /\ event'.socket # userSockets[u]
        /\ userSockets[u] \in sockets')
         => /\ u \in DOMAIN userSockets'
            /\ userSockets'[u] = userSockets[u]]_vars

\* --------------------------------------------------------------------
\* C23: the queue holds no dead entry: after the disconnect of a user's
\* socket the queue has no entry of that user, and in every reachable state
\* the socket id of each queue entry is a connected socket, so the two
\* entries tryMatch takes from the head are live connections.
NoDeadQueueEntries ==
  /\ [](\A i \in 1..Len(queue) : queue[i].socketId \in sockets)
  /\ [][event'.name = "disconnect"
          => \A i \in 1..Len(queue') : queue'[i].userId # event'.userId]_vars

\* a user who was queued has disconnected and left the queue while another
\* user is connected
NoDeadQueueEntriesWitness ==
  /\ event.name = "disconnect"
  /\ event.queued
  /\ \A i \in 1..Len(queue) : queue[i].userId # event.userId
  /\ \E u \in Users : u # event.userId /\ u \in DOMAIN userSockets

\* --------------------------------------------------------------------
\* the number of elements of a sequence that satisfy P
CountOf(seq, P(_)) == Cardinality({i \in 1..Len(seq) : P(seq[i])})

\* C24: a join-queue event that brings the queue to two entries pairs them:
\* exactly one conversation row is created, ACTIVE, with the two queued users
\* as participants; each of the two gets one participation award and nobody
\* else any; one system message is inserted; the room's timer is started; and
\* each of the two whose queued socket is connected receives exactly one
\* matched event, with the other user as partner and the id and room of the
\* new conversation.
SuccessfulPairing ==
  [][(/\ event'.name = "join-queue"
      /\ Len(queue) = 1
      /\ queue[1].userId # event'.userId)
       => LET a == queue[1]
              b == [userId |-> event'.userId, socketId |-> event'.socket]
              id == Len(conversations) + 1
              other(p) == IF p = a THEN b ELSE a
          IN /\ Len(conversations') = Len(conversations) + 1
             /\ \A c \in DOMAIN conversations :
                  conversations'[c].user1_id = conversations[c].user1_id
                    /\ conversations'[c].user2_id = conversations[c].user2_id
             /\ conversations'[id].status = ACTIVE
             /\ {conversations'[id].user1_id, conversations'[id].user2_id}
                  = {a.userId, b.userId}
             /\ \A p \in {a, b} :
                  CountOf(inserted', LAMBDA r :
                            r = awardParticipation(p.userId, id)) = 1
             /\ CountOf(inserted', LAMBDA r : r.table = "points_log") = 2
             /\ CountOf(inserted', LAMBDA r : r.table = "messages") = 1
             /\ \E i \in 1..Len(inserted') :
                  /\ inserted'[i].table = "messages"
                  /\ inserted'[i].message_type = "system"
                  /\ inserted'[i].conversation_id = id
             /\ conversations'[id].room_id \in DOMAIN activeTimers'
             /\ \E t \in timeouts' :
                  /\ t.kind = "expiry"
                  /\ t.id = activeTimers'[conversations'[id].room_id].timeout
                  /\ t.conversationId = id
             /\ \E i \in 1..Len(emitted') :
                  emitted'[i] = ToRoom(conversations'[id].room_id,
                                       "timer-start", id)
             /\ \A p \in {a, b} :
                  p.socketId \in sockets'
                    => /\ CountOf(emitted', LAMBDA m :
                                    m.ev = "matched" /\ m.dest = p.socketId) = 1
                       /\ \E i \in 1..Len(emitted') :
                            emitted'[i] =
                              ToSocket(p.socketId, "matched",
                                [conversationId |-> id,
                                 roomId |-> conversations'[id].room_id,
                                 partner |-> other(p).userId])
             /\ CountOf(emitted', LAMBDA m : m.ev = "matched")
                  = Cardinality({p \in {a, b} : p.socketId \in sockets'})]_vars

\* two users have just been paired, one of them through the second socket
\* they opened
SuccessfulPairingWitness ==
  /\ event.name = "join-queue"
  /\ Len(conversations) = 1
  /\ conversations[1].status = ACTIVE
  /\ Len(inserted) = 3
  /\ CountOf(emitted, LAMBDA m : m.ev = "matched") = 2
  /\ \E i \in 1..Len(emitted) :
       emitted[i].ev = "matched" /\ emitted[i].dest[2] = 2

\* --------------------------------------------------------------------
\* C25: a store write that throws while an event is handled leaves the
\* transient state as it was before the event: the queue, the presence map,
\* the room timers with their pending callbacks and the pending photo and
\* rating sets are unchanged by that step.
StoreFailureKeepsTransientState ==
  []["threw" \in DOMAIN event'
       => UNCHANGED <<queue, userSockets, activeTimers, timeouts,
                      pendingPhotos, pendingRatings>>]_vars

\* --------------------------------------------------------------------
\* C26: a conversation enters EXTENSION_PENDING only in a step of the expiry
\* callback of its own room timer, and only from ACTIVE: no handler of a
\* user event moves a conversation into EXTENSION_PENDING, and the expiry
\* callback never fires while the conversation is CLOSED, FRIENDS_FOREVER or
\* PHOTO_EXCHANGE.
ExtensionPendingOnlyByExpiry ==
  [][/\ \A c \in DOMAIN conversations' :
          (/\ conversations'[c].status = EXTENSION_PENDING
           /\ (c \in DOMAIN conversations
                 => conversations[c].status # EXTENSION_PENDING))
            => /\ event'.name = "timer-expiry"
               /\ event'.conversationId = c
               /\ event'.roomId = conversations'[c].room_id
               /\ c \in DOMAIN conversations
               /\ conversations[c].status = ACTIVE
     /\ event'.name = "timer-expiry"
          => conversations[event'.conversationId].status = ACTIVE]_vars

\* the timer of the second countdown of a conversation, started by the two
\* ratings after an extension, has expired
ExtensionPendingOnlyByExpiryWitness ==
  /\ event.name = "timer-expiry"
  /\ conversations[event.conversationId].status = EXTENSION_PENDING
  /\ conversations[event.conversationId].extensions_count = 1

\* --------------------------------------------------------------------
\* the callbacks that the last step ran or cancelled
Gone == timeouts \ timeouts'

\* the room has no timer, or its timer was started by the last step
TimerSettled(r) ==
  \/ r \notin DOMAIN activeTimers
  \/ \E i \in 1..Len(emitted) :
       emitted[i].ev = "timer-start" /\ emitted[i].dest = r

\* C27: the expiry callback of a timer that was started and not cancelled
\* fires exactly once. When it fires it is the callback registered for its
\* room; the step removes the room's entry from the timer map, sets the
\* conversation to EXTENSION_PENDING, emits timer-expired and then
\* extension-prompt to the room and leaves no expiry callback of the room
\* pending. A cancelled timer emits none of these: every pending expiry
\* callback is the one registered for its room. A registered timer does not
\* stay pending for ever: it fires unless it is cancelled or replaced.
ExpiryFiresOnce ==
  /\ [](\A t \in timeouts :
          t.kind = "expiry"
            => /\ t.roomId \in DOMAIN activeTimers
               /\ activeTimers[t.roomId].timeout = t.id)
  /\ [][event'.name = "timer-expiry"
          => LET r == event'.roomId
                 c == event'.conversationId
             IN /\ \E t \in Gone :
                     /\ t.kind = "expiry"
                     /\ t.roomId = r
                     /\ activeTimers[r].timeout = t.id
                /\ r \notin DOMAIN activeTimers'
                /\ conversations'[c].status = EXTENSION_PENDING
                /\ emitted' = <<ToRoom(r, "timer-expired", c),
                                ToRoom(r, "extension-prompt", c)>>
                /\ \A t \in timeouts' :
                     t.roomId = r => t.kind \notin {"expiry", "warning"}]_vars
  /\ [][\A i \in 1..Len(emitted') :
          emitted'[i].ev \in {"timer-expired", "extension-prompt"}
            => event'.name = "timer-expiry"]_vars
  /\ \A r \in ConvIds : []<>TimerSettled(r)

\* the expiry callback of a room timer has fired after its warning and
\* nothing of the timer is left
ExpiryFiresOnceWitness ==
  /\ event.name = "timer-expiry"
  /\ event.roomId \notin DOMAIN activeTimers
  /\ conversations[event.conversationId].status = EXTENSION_PENDING
  /\ Len(emitted) = 2
  /\ timeouts = {}

\* --------------------------------------------------------------------
\* C28: for every configured duration the warning of a timer that was
\* started and not cancelled is emitted after timer-start and before
\* timer-expired, at the duration minus the warning lead after the start,
\* and the secondsLeft it carries is the time that then remains until the
\* expiry callback of the same timer is due.
WarningLead ==
  [][event'.name = "timer-warning"
       => LET r == event'.roomId
          IN \E w \in Gone :
               /\ w.kind = "warning"
               /\ w.roomId = r
               /\ w.delay > 0
               /\ w.delay = (TIMER_SECONDS - TIMER_WARNING_SECONDS) * 1000
               /\ \E e \in timeouts' :
                    /\ e.kind = "expiry"
                    /\ e.roomId = r
                    /\ e.after = w.id
                    /\ w.delay < e.delay
                    /\ \A i \in 1..Len(emitted') :
                         emitted'[i].ev = "timer-warning"
                           => emitted'[i].data.secondsLeft * 1000
                                = e.delay - w.delay]_vars

\* --------------------------------------------------------------------
\* the user has no connected socket
Offline(u) == \A s \in sockets : OwnerOf(s) # u

\* the user is a participant of a conversation that is not CLOSED
InOpenConversation(u, c) ==
  /\ c \in DOMAIN conversations
  /\ u \in Participants(c)
  /\ conversations[c].status # CLOSED

\* C29: when the grace timer of a disconnected user fires and the
\* conversation is still not CLOSED, the conversation becomes CLOSED, its
\* room timer is cancelled, and partner-disconnected followed by
\* conversation-closed are emitted to the room; so, when every pending grace
\* callback is eventually run, the open conversation of a user who is
\* disconnected and stays so is eventually CLOSED.
GraceExpiryCloses ==
  /\ [][(/\ event'.name = "grace-expiry"
         /\ conversations[event'.conversationId].status # CLOSED)
          => LET c == event'.conversationId
                 r == conversations[c].room_id
             IN /\ conversations'[c].status = CLOSED
                /\ r \notin DOMAIN activeTimers'
                /\ \A t \in timeouts' :
                     t.roomId = r => t.kind \notin {"warning", "expiry"}
                /\ emitted' = <<ToRoom(r, "partner-disconnected", c),
                                ToRoom(r, "conversation-closed", c)>>]_vars
  /\ \A u \in Members, c \in 1..MaxRejoinConvs :
       (Offline(u) /\ InOpenConversation(u, c))
         ~> \/ ~Offline(u)
            \/ c \in DOMAIN conversations /\ conversations[c].status = CLOSED

\* --------------------------------------------------------------------
\* C30 as stated: a grace callback that fires for a conversation that is
\* already CLOSED changes no persisted and no transient state (the callback
\* itself leaves the pending callbacks) and emits nothing.
GraceOnClosedChangesNothing ==
  [][(/\ event'.name = "grace-expiry"
      /\ conversations[event'.conversationId].status = CLOSED)
       => /\ UNCHANGED <<conversations, extension_votes, photo_exchanges,
                         queue, userSockets, sockets, connCount, rooms,
                         activeTimers, pendingPhotos, pendingRatings,
                         disconnectTimers>>
          /\ timeouts' \subseteq timeouts
          /\ Cardinality(Gone) = 1
          /\ emitted' = <<>>
          /\ inserted' = <<>>]_vars

\* C30, amended: a grace callback that fires for a conversation that is
\* already CLOSED changes no persisted state and emits nothing; of the
\* transient state it only removes the user's entry from disconnectTimers:
\* the queue, the presence map, the rooms, the room timers, every other
\* pending callback and the pending photo and rating sets stay as they are.
GraceOnClosedIsNoOp ==
  [][(/\ event'.name = "grace-expiry"
      /\ conversations[event'.conversationId].status = CLOSED)
       => /\ UNCHANGED <<conversations, extension_votes, photo_exchanges,
                         queue, userSockets, sockets, connCount, rooms,
                         activeTimers, pendingPhotos, pendingRatings>>
          /\ timeouts' \subseteq timeouts
          /\ Cardinality(Gone) = 1
          /\ disconnectTimers' = MapDelete(disconnectTimers, event'.userId)
          /\ emitted' = <<>>
          /\ inserted' = <<>>]_vars

\* the grace callback of a user has fired after the conversation had been
\* closed by a vote that the partner cast while the user was away, and has
\* emitted nothing
GraceOnClosedIsNoOpWitness ==
  /\ event.name = "grace-expiry"
  /\ conversations[event.conversationId].status = CLOSED
  /\ emitted = <<>>
  /\ event.userId \notin DOMAIN disconnectTimers
  /\ closedOnce = {event.conversationId}
  /\ \E i \in 1..Len(extension_votes) : extension_votes[i].vote = "leave"
  /\ \E u \in Members : u # event.userId /\ ~Offline(u)

\* --------------------------------------------------------------------
\* the conversations of a user that are not CLOSED
LiveConversationsOf(u) ==
  {c \in DOMAIN conversations :
     u \in Participants(c) /\ conversations[c].status # CLOSED}

\* C31: one live conversation per user: in every reachable state a user is
\* a participant of at most one conversation that is not CLOSED; joining the
\* queue again does not pair a user who is in a live conversation.
OneLiveConversationPerUser ==
  \A u \in Users : Cardinality(LiveConversationsOf(u)) <= 1

\* --------------------------------------------------------------------
\* the step resolved a round of conversation c with the outcome
\* photo_exchange
ExtendResolved(c) ==
  /\ event'.name = "extension-vote"
  /\ event'.conversationId = c
  /\ \E i \in 1..Len(emitted') :
       emitted'[i] = ToRoom(conversations[c].room_id, "extension-result",
                            "photo_exchange")

\* C32: extensions_count starts at 0, never decreases and changes only by
\* +1, in the step that resolves a round with the outcome photo_exchange;
\* every such resolution adds 1 and every other step leaves it unchanged, so
\* it counts the extend resolutions of the conversation.
ExtensionsCountCounts ==
  [][\A c \in DOMAIN conversations' :
       IF c \notin DOMAIN conversations
       THEN conversations'[c].extensions_count = 0
       ELSE IF ExtendResolved(c)
       THEN conversations'[c].extensions_count
              = conversations[c].extensions_count + 1
       ELSE conversations'[c].extensions_count
              = conversations[c].extensions_count]_vars

\* the second extend resolution of a conversation
ExtensionsCountCountsWitness ==
  /\ event.name = "extension-vote"
  /\ event.conversationId \in DOMAIN conversations
  /\ conversations[event.conversationId].extensions_count = 2
  /\ conversations[event.conversationId].status = PHOTO_EXCHANGE
  /\ \E i \in 1..Len(emitted) : emitted[i].ev = "photo-exchange-start"

\* --------------------------------------------------------------------
\* C33: at most two votes per round: for every conversation and round
\* number the votes table holds at most two rows, and the rows of a round
\* belong to different users.
AtMostTwoVotesPerRound ==
  \A i \in 1..Len(extension_votes) :
    LET same == {j \in 1..Len(extension_votes) :
                   /\ extension_votes[j].conversation_id
                        = extension_votes[i].conversation_id
                   /\ extension_votes[j].round = extension_votes[i].round}
    IN /\ Cardinality(same) <= 2
       /\ \A j \in same \ {i} :
            extension_votes[j].user_id # extension_votes[i].user_id

\* --------------------------------------------------------------------
\* C34: an extension resolution resets the photo and rating tracking: right
\* after a photo_exchange outcome both pending sets of the conversation are
\* empty, so a reveal of the round has two submitters of rows stored since
\* the resolution, and the round completes on the ratings of two users sent
\* since the resolution.
ExtendResetsPending ==
  [][\A c \in DOMAIN conversations :
       /\ ExtendResolved(c) =>
            /\ c \in DOMAIN pendingPhotos' /\ pendingPhotos'[c] = {}
            /\ c \in DOMAIN pendingRatings' /\ pendingRatings'[c] = <<>>
       /\ (/\ event'.name = "photo-exchange-submit"
           /\ event'.conversationId = c
           /\ InPhotoRound(c)
           /\ RevealsEmitted(emitted') # {})
          => /\ pendingPhotos'[c] \subseteq RoundSubmitters(photo_exchanges', c)
             /\ Cardinality(pendingPhotos'[c]) >= 2
       /\ (/\ event'.name = "rate-photo"
           /\ event'.conversationId = c
           /\ InPhotoRound(c)
           /\ conversations'[c].status = ACTIVE)
          => Cardinality(photoRound'[c].raters) >= 2]_vars

\* a photo_exchange resolution of a conversation that had a submitter and a
\* rater on record before it
ExtendResetsPendingWitness ==
  /\ event.name = "extension-vote"
  /\ event.conversationId \in DOMAIN conversations
  /\ conversations[event.conversationId].status = PHOTO_EXCHANGE
  /\ \E i \in 1..Len(emitted) : emitted[i].ev = "photo-exchange-start"
  /\ \E i \in 1..Len(photo_exchanges) :
       photo_exchanges[i].conversation_id = event.conversationId
  /\ pendingPhotos[event.conversationId] = {}
  /\ pendingRatings[event.conversationId] = <<>>

\* --------------------------------------------------------------------
\* C35: photo exchange precedes rating completion: a conversation returns
\* from PHOTO_EXCHANGE to ACTIVE only after both participants have submitted
\* a photo in the round and a reveal has been emitted for the round.
PhotosBeforeRatingCompletion ==
  [][\A c \in DOMAIN conversations :
       (conversations[c].status = PHOTO_EXCHANGE
          /\ conversations'[c].status = ACTIVE)
       => /\ Participants(c) \subseteq RoundSubmitters(photo_exchanges, c)
          /\ photoRound[c].reveals >= 1]_vars

\* --------------------------------------------------------------------
\* C36: liveness of the countdown: when the scheduled callbacks are fired
\* fairly, every conversation that is ACTIVE eventually is EXTENSION_PENDING
\* or CLOSED; and the vote after which both participants have voted in the
\* round resolves it in the same step: the status leaves EXTENSION_PENDING
\* and extension-result is emitted.
CountdownLiveness ==
  /\ \A c \in ConvIds :
       (c \in DOMAIN conversations /\ conversations[c].status = ACTIVE)
         ~> (c \in DOMAIN conversations
               /\ conversations[c].status \in {EXTENSION_PENDING, CLOSED})
  /\ [][\A c \in DOMAIN conversations :
         (/\ event'.name = "extension-vote"
          /\ event'.conversationId = c
          /\ conversations[c].status = EXTENSION_PENDING
          /\ Participants(c) \subseteq
                Voters(extension_votes', c, conversations[c].extensions_count + 1))
         => /\ conversations'[c].status # EXTENSION_PENDING
            /\ ResultsEmitted(emitted') # {}]_vars

\* --------------------------------------------------------------------
\* C37: timer handle and status agree: between events activeTimers holds a
\* handle for the room of a conversation if and only if the status of the
\* conversation is ACTIVE.
TimerHandleIffActive ==
  \A c \in DOMAIN conversations :
    conversations[c].room_id \in DOMAIN activeTimers
      <=> conversations[c].status = ACTIVE

\* --------------------------------------------------------------------
\* the pending grace-period callbacks of user u
GraceCallbacksOf(u) == {t \in timeouts : t.kind = "grace" /\ t.userId = u}

\* C38: grace timers stay cancellable: every user has at most one pending
\* grace-period callback, and it is the one recorded in disconnectTimers.
GraceTimersCancellable ==
  \A u \in Users :
    /\ Cardinality(GraceCallbacksOf(u)) <= 1
    /\ \A t \in GraceCallbacksOf(u) :
         u \in DOMAIN disconnectTimers /\ disconnectTimers[u] = t.id

\* --------------------------------------------------------------------
\* C39: the friends-forever flag matches the status: a conversation has
\* is_friends_forever = 1 only if its status is FRIENDS_FOREVER or CLOSED;
\* and the friends-forever bonus goes to each participant at most once per
\* conversation: one row per participant in the step that sets the flag,
\* and none for a conversation whose flag is set already.
FriendsForeverFlagMatches ==
  /\ [](\A c \in DOMAIN conversations :
          conversations[c].is_friends_forever = 1
            => conversations[c].status \in {FRIENDS_FOREVER, CLOSED})
  /\ [][\A c \in DOMAIN conversations : \A u \in Users :
         LET n == Cardinality({i \in PointsRows(inserted') :
                    /\ inserted'[i].event_type = "friends_forever"
                    /\ inserted'[i].user_id = u
                    /\ inserted'[i].conversation_id = c})
         IN /\ n <= 1
            /\ n = 1 => conversations[c].is_friends_forever = 0]_vars

====
